---- MODULE Spec2Model ----
(***************************************************************************)
(* PrimeHaul Leads: lead matching (find_matching_companies) and the        *)
(* distribution background task (distribute_lead) of app/lead_matching.py, *)
(* over the relational store of app/models.py.                             *)
(* Further specifications cover the pricing and estimate calculators, the  *)
(* consumer survey of app/main.py (SpecSurvey) and the purchase of a lead  *)
(* through Stripe Checkout in app/company_routes.py and                    *)
(* app/stripe_billing.py (SpecPurchase).                                   *)
(*                                                                         *)
(* Units.  Latitudes and longitudes are integers in tenths of a degree.    *)
(* Volumes (Numeric(10,2) columns) are integers in hundredths of a cubic   *)
(* metre.  Distances are integers in hundredths of a mile, rounded up, so  *)
(* that "distance > radius" for an integer radius is decided exactly.      *)
(* A Python string is a sequence of one-character strings.  A nullable     *)
(* value is the empty sequence (None) or a one-element sequence.           *)
(***************************************************************************)
EXTENDS Integers, Sequences, FiniteSets, TLC

\* ------------------------------------------------------------------------
\* Nullable values and Python truthiness
\* ------------------------------------------------------------------------
None == <<>>

Some(v) == <<v>>

\* Python `x or d` for a nullable number: None and 0 are both falsy.
OrDefault(x, d) == IF x = None \/ x[1] = 0 THEN d ELSE x[1]

\* ------------------------------------------------------------------------
\* Strings: str.strip() and str.lower()
\* ------------------------------------------------------------------------
UpperChars == <<"A","B","C","D","E","F","G","H","I","J","K","L","M",
                "N","O","P","Q","R","S","T","U","V","W","X","Y","Z">>

LowerChars == <<"a","b","c","d","e","f","g","h","i","j","k","l","m",
                "n","o","p","q","r","s","t","u","v","w","x","y","z">>

Whitespace == {" ", "\t", "\n"}

LowerChar(ch) ==
    IF \E i \in 1..26 : UpperChars[i] = ch
    THEN LowerChars[CHOOSE i \in 1..26 : UpperChars[i] = ch]
    ELSE ch

str_lower(s) == [i \in 1..Len(s) |-> LowerChar(s[i])]

RECURSIVE str_lstrip(_)
str_lstrip(s) ==
    IF s # <<>> /\ Head(s) \in Whitespace THEN str_lstrip(Tail(s)) ELSE s

RECURSIVE str_rstrip(_)
str_rstrip(s) ==
    IF s # <<>> /\ s[Len(s)] \in Whitespace
    THEN str_rstrip(SubSeq(s, 1, Len(s) - 1))
    ELSE s

str_strip(s) == str_rstrip(str_lstrip(s))

\* ------------------------------------------------------------------------
\* app/geo.py
\* ------------------------------------------------------------------------
\* -90 <= lat <= 90 and -180 <= lng <= 180, in tenths of a degree.
validate_coordinates(lat, lng) ==
    /\ -900 <= lat /\ lat <= 900
    /\ -1800 <= lng /\ lng <= 1800

\* The places the model draws coordinates from (tenths of a degree).
London == <<515, -1>>

Barnet == <<517, -1>>

Hatfield == <<520, -1>>

Manchester == <<535, -22>>

PoleEdge == <<900, 1800>>

Greenwich == <<515, 0>>

\* R * c of the haversine formula (R = 3959) for the places above, in
\* hundredths of a mile rounded up; the formula is symmetric in its points.
HaversineTable ==
    (<<London, London>> :> 0) @@ (<<London, Barnet>> :> 1382) @@
    (<<London, Hatfield>> :> 3455) @@ (<<London, Manchester>> :> 16400) @@
    (<<London, PoleEdge>> :> 266026) @@
    (<<Barnet, Barnet>> :> 0) @@ (<<Barnet, Hatfield>> :> 2073) @@
    (<<Barnet, Manchester>> :> 15243) @@ (<<Barnet, PoleEdge>> :> 264644) @@
    (<<Hatfield, Hatfield>> :> 0) @@ (<<Hatfield, Manchester>> :> 13585) @@
    (<<Hatfield, PoleEdge>> :> 262571) @@
    (<<Manchester, Manchester>> :> 0) @@
    (<<Manchester, PoleEdge>> :> 252207) @@
    (<<PoleEdge, PoleEdge>> :> 0) @@
    (<<Greenwich, Greenwich>> :> 0) @@ (<<Greenwich, London>> :> 431) @@
    (<<Greenwich, Barnet>> :> 1448) @@ (<<Greenwich, Hatfield>> :> 3482) @@
    (<<Greenwich, Manchester>> :> 16631) @@
    (<<Greenwich, PoleEdge>> :> 266026)

Haversine(lat1, lng1, lat2, lng2) ==
    LET p == <<lat1, lng1>>
        q == <<lat2, lng2>>
    IN  IF <<p, q>> \in DOMAIN HaversineTable
        THEN HaversineTable[<<p, q>>]
        ELSE HaversineTable[<<q, p>>]

\* Returns 0.0 if any coordinate is outside the valid WGS-84 range.
calculate_distance_miles_far(lat1, lng1, lat2, lng2) ==
    IF ~(validate_coordinates(lat1, lng1) /\ validate_coordinates(lat2, lng2))
    THEN 2500000
    ELSE Haversine(lat1, lng1, lat2, lng2)

calculate_distance_miles(lat1, lng1, lat2, lng2) ==
    IF ~(validate_coordinates(lat1, lng1) /\ validate_coordinates(lat2, lng2))
    THEN 0
    ELSE Haversine(lat1, lng1, lat2, lng2)

\* ------------------------------------------------------------------------
\* app/models.py: the rows of the store
\* ------------------------------------------------------------------------
\* Company.service_radius_miles when the column is NULL (lead_matching.py)
DEFAULT_RADIUS == 30

Company(active, lat, lng, radius, min_cbm, max_cbm, types) ==
    [is_active |-> active, base_lat |-> lat, base_lng |-> lng,
     service_radius_miles |-> radius, pref_min_cbm |-> min_cbm,
     pref_max_cbm |-> max_cbm, pref_property_types |-> types]

Lead(status, pickup, cbm, ptype) ==
    [status |-> status, pickup |-> pickup, total_cbm |-> cbm,
     property_type |-> ptype]

\* The JSONB pickup dict; a key that is absent reads as None through .get().
Pickup(lat, lng) == Some([lat |-> lat, lng |-> lng])

\* ------------------------------------------------------------------------
\* app/lead_matching.py: find_matching_companies
\* ------------------------------------------------------------------------
\* The query: active companies that have a base location configured.
CandidateCompaniesNoActiveFilter(companies) ==
    {c \in DOMAIN companies :
        /\ companies[c].base_lat # None
        /\ companies[c].base_lng # None}

CandidateCompanies(companies) ==
    {c \in DOMAIN companies :
        /\ companies[c].is_active
        /\ companies[c].base_lat # None
        /\ companies[c].base_lng # None}

\* Distance check: `continue` when distance > radius.
WithinRadius(company, pickup_lat, pickup_lng) ==
    LET distance == calculate_distance_miles(company.base_lat[1],
                        company.base_lng[1], pickup_lat, pickup_lng)
        radius == OrDefault(company.service_radius_miles, DEFAULT_RADIUS)
    IN  ~(distance > radius * 100)

\* CBM preference checks: `continue` when below the minimum or above the
\* maximum, each only when the preference is not None.
CbmPreferenceOkStrictMax(company, lead_cbm) ==
    /\ company.pref_min_cbm # None => ~(lead_cbm < company.pref_min_cbm[1])
    /\ company.pref_max_cbm # None => ~(lead_cbm >= company.pref_max_cbm[1])

CbmPreferenceOk(company, lead_cbm) ==
    /\ company.pref_min_cbm # None => ~(lead_cbm < company.pref_min_cbm[1])
    /\ company.pref_max_cbm # None => ~(lead_cbm > company.pref_max_cbm[1])

\* Property type preference check.  The filter applies when the list is
\* truthy (set and non-empty); falsy entries are skipped, the others are
\* lower-cased and compared with the lower-cased, stripped lead type.
PropertyTypeOk(company, lead_property_type) ==
    LET pref == company.pref_property_types
    IN  IF pref = None \/ pref[1] = <<>>
        THEN TRUE
        ELSE LET allowed_types == pref[1]
                 allowed_lower ==
                     {str_lower(allowed_types[i]) :
                         i \in {j \in 1..Len(allowed_types) :
                                    allowed_types[j] # <<>>}}
             IN  str_lower(lead_property_type) \in allowed_lower

\* The body of the loop over the query result for one company.
CompanyMatches(lead, company, pickup_lat, pickup_lng) ==
    LET lead_cbm == OrDefault(lead.total_cbm, 0)
        lead_property_type ==
            str_strip(IF lead.property_type = None THEN <<>>
                      ELSE lead.property_type[1])
    IN  /\ WithinRadius(company, pickup_lat, pickup_lng)
        /\ CbmPreferenceOk(company, lead_cbm)
        /\ PropertyTypeOk(company, lead_property_type)

\* Both pickup coordinates are there: the lead gets past the early return
\* and the company query is run.
HasPickupCoordinates(lead) ==
    /\ lead.pickup # None
    /\ lead.pickup[1].lat # None
    /\ lead.pickup[1].lng # None

\* `return []` of the early return: the query result is not looked at.
PickupMissingResultAllRows(rows) == rows

PickupMissingResult(rows) == <<>>

\* `rows` is the result of the query, in the order the store returned it.
find_matching_companies(lead, companies, rows) ==
    LET pickup == IF lead.pickup = None
                  THEN [lat |-> None, lng |-> None]
                  ELSE lead.pickup[1]
        pickup_lat == pickup.lat
        pickup_lng == pickup.lng
    IN  IF pickup_lat = None \/ pickup_lng = None
        THEN PickupMissingResult(rows)
        ELSE SelectSeq(rows, LAMBDA c :
                 CompanyMatches(lead, companies[c],
                                pickup_lat[1], pickup_lng[1]))

\* The orders in which the store may return a set of rows (no ORDER BY).
Orderings(S) ==
    {s \in [1..Cardinality(S) -> S] :
        \A i, j \in 1..Cardinality(S) : s[i] = s[j] => i = j}

Range(s) == {s[i] : i \in 1..Len(s)}

\* ------------------------------------------------------------------------
\* State
\* ------------------------------------------------------------------------
\* The number of distribute_lead invocations the model follows.
MaxRuns == 2

RunIds == 1..MaxRuns

LeadIds == {"L1", "L2"}

CompanyIds == {"A", "B"}

VARIABLES
    leads,                \* leads table: lead id -> None | Some(Lead row)
    companies,            \* companies table: company id -> Company row
    notifications,        \* committed lead_notifications rows
    runs,                 \* distribute_lead invocations: run id -> frame
    alert_emails,         \* calls of send_lead_alert_email: <<run, company>>
    confirmation_emails,  \* runs that called send_customer_confirmation
    failed_emails,        \* recipients a send raised for: company | "customer"
    overlapped,           \* some run started while another was in progress
    q_lead,               \* matching query: the lead
    q_companies,          \* matching query: the companies table
    q_result,             \* matching query: None | Some(result list)
    tiers,                \* lead_pricing_tiers table: tier id -> None | row
    p_total_cbm,          \* price lookup: the volume passed in
    p_result,             \* price lookup: None | Some(pence)
    e_lead,               \* estimate: the lead passed in
    e_result,             \* estimate: None | Some(result dict)
    a_access_data,        \* access cost: the JSONB access record passed in
    a_cost,               \* access cost: None | Some(pounds)
    s_lead,               \* survey: the Lead row of the survey token
    s_items,              \* survey: the LeadItem rows of the lead's rooms
    s_now,                \* survey: the clock read by datetime.now
    s_tasks,              \* survey: distribute_lead tasks scheduled so far
    purchases,            \* lead_purchases table: a set of rows
    checkout_sessions,    \* Stripe: session id -> None | Some(session)
    stripe_events,        \* stripe_events table: ids of the processed rows
    lead_notifications,   \* lead_notifications rows with purchased_at
    handlers,             \* requests in flight: handler id -> frame
    clock,                \* the clock read by datetime.now
    stripe_available,     \* STRIPE_AVAILABLE of company_routes.py
    app_env               \* settings.APP_ENV

vars == <<leads, companies, notifications, runs, alert_emails,
          confirmation_emails, failed_emails, overlapped,
          q_lead, q_companies, q_result,
          tiers, p_total_cbm, p_result, e_lead, e_result,
          a_access_data, a_cost, s_lead, s_items, s_now, s_tasks,
          purchases, checkout_sessions, stripe_events, lead_notifications,
          handlers, clock, stripe_available, app_env>>

dist_vars == <<leads, companies, notifications, runs, alert_emails,
               confirmation_emails, failed_emails, overlapped>>

price_vars == <<tiers, p_total_cbm, p_result>>

estimate_vars == <<e_lead, e_result, a_access_data, a_cost>>

survey_vars == <<s_lead, s_items, s_now, s_tasks>>

purchase_vars == <<purchases, checkout_sessions, stripe_events,
                   lead_notifications, handlers, clock, stripe_available,
                   app_env>>

query_vars == <<q_lead, q_companies, q_result, price_vars, estimate_vars,
                survey_vars, purchase_vars>>

\* ------------------------------------------------------------------------
\* app/models.py: LeadPricingTier
\* ------------------------------------------------------------------------
TierIds == {"T1", "T2", "T3"}

LeadPricingTier(min_cbm, max_cbm, price_pence, is_active) ==
    [min_cbm |-> min_cbm, max_cbm |-> max_cbm, price_pence |-> price_pence,
     is_active |-> is_active]

\* No price lookup and no estimate is in progress.
PriceIdle ==
    /\ tiers = [t \in TierIds |-> None]
    /\ p_total_cbm = 0
    /\ p_result = None

EstimateIdle ==
    /\ e_lead = None
    /\ e_result = None
    /\ a_access_data = None
    /\ a_cost = None

\* No survey is being filled in.
SurveyIdle ==
    /\ s_lead = None
    /\ s_items = {}
    /\ s_now = 0
    /\ s_tasks = 0

\* ------------------------------------------------------------------------
\* Lead purchases: app/models.py LeadPurchase and StripeEvent, and the
\* request handlers in flight
\* ------------------------------------------------------------------------
\* The purchase, callback and webhook requests handled at the same time
\* (one worker per request).
HandlerIds == {1, 2}

\* The number of Checkout Sessions Stripe creates in a behaviour.
MaxSessions == 2

SessionIds == 1..MaxSessions

\* The frame of a request handler that is not running.
IdleHandler ==
    [pc |-> "idle", kind |-> "none", company |-> "A", lead_id |-> "L1",
     session |-> None, purchase |-> None, intent |-> None]

\* No purchase, session or webhook event exists and no request is handled.
PurchaseIdle ==
    /\ purchases = {}
    /\ checkout_sessions = [s \in SessionIds |-> None]
    /\ stripe_events = {}
    /\ lead_notifications = {}
    /\ handlers = [h \in HandlerIds |-> IdleHandler]
    /\ clock = 0
    /\ stripe_available = FALSE
    /\ app_env = "development"

\* A LeadNotification row; `run` stands for the row's own primary key and
\* records which invocation inserted it.
LeadNotificationOfFirstLead(lead_id, company_id, run) ==
    [lead_id |-> "L1", company_id |-> company_id, run |-> run]

LeadNotification(lead_id, company_id, run) ==
    [lead_id |-> lead_id, company_id |-> company_id, run |-> run]

\* The frame of a distribute_lead invocation that has not been called yet.
IdleRun ==
    [pc |-> "idle", lead_id |-> "L1", lead |-> None, seen |-> None,
     matched |-> FALSE, matching_companies |-> {}, todo |-> {},
     pending |-> {}, db_error |-> FALSE, outcome |-> "none"]

InProgress(run) == run.pc \notin {"idle", "done"}

\* ------------------------------------------------------------------------
\* Rows the store holds initially
\* ------------------------------------------------------------------------
House == <<"H", "o", "u", "s", "e">>

Flat == <<"F", "l", "a", "t">>

LeadStatuses == {"in_progress", "active", "expired", "abandoned"}

InitLeadRows ==
    {None, Some(Lead("active", None, Some(1500), Some(House))),
     Some(Lead("active", Pickup(Some(London[1]), None),
               Some(1500), Some(House)))}
    \cup {Some(Lead(st, Pickup(Some(London[1]), Some(London[2])),
                    Some(1500), Some(House))) : st \in LeadStatuses}

InitLeadRows2 ==
    {None, Some(Lead("active", Pickup(Some(Manchester[1]),
                     Some(Manchester[2])), Some(2500), Some(Flat)))}

InitCompanyRowsA ==
    {Company(TRUE, Some(London[1]), Some(London[2]), Some(30),
             None, None, None),
     Company(FALSE, Some(London[1]), Some(London[2]), Some(30),
             None, None, None),
     Company(TRUE, None, None, Some(30), None, None, None)}

InitCompanyRowsB ==
    {Company(TRUE, Some(London[1]), Some(London[2]), Some(30),
             None, None, None),
     Company(TRUE, Some(Manchester[1]), Some(Manchester[2]), Some(30),
             None, None, None)}

Init ==
    /\ \E l1 \in InitLeadRows, l2 \in InitLeadRows2 :
            leads = [l \in LeadIds |-> IF l = "L1" THEN l1 ELSE l2]
    /\ \E a \in InitCompanyRowsA, b \in InitCompanyRowsB :
            companies = [c \in CompanyIds |-> IF c = "A" THEN a ELSE b]
    /\ notifications = {}
    /\ runs = [r \in RunIds |-> IdleRun]
    /\ alert_emails = {}
    /\ confirmation_emails = {}
    /\ failed_emails = {}
    /\ overlapped = FALSE
    /\ q_lead = None
    /\ q_companies = <<>>
    /\ q_result = None
    /\ PriceIdle
    /\ EstimateIdle
    /\ SurveyIdle
    /\ PurchaseIdle

\* ------------------------------------------------------------------------
\* app/lead_matching.py: distribute_lead, one action per step
\* ------------------------------------------------------------------------
\* `if lead is None: return` and `if lead.status != "active": return`
LeadIsDistributableAnyStatus(lead) == lead # None

LeadIsDistributable(lead) == lead # None /\ lead[1].status = "active"

\* `if not matching_companies: return`
NoMatchesNever(matching_companies) == FALSE

NoMatches(matching_companies) == matching_companies = <<>>

\* db.add(notification): the row joins the session, not the table, until
\* the session is committed (SessionLocal has autocommit=False).
db_add_autocommit(table, pending, row) ==
    [table |-> table \cup {row}, pending |-> pending]

db_add(table, pending, row) ==
    [table |-> table, pending |-> pending \cup {row}]

\* except Exception: db.rollback(); finally: db.close().  The session's
\* pending rows are dropped and the call returns.
RollbackAndRetry(frame) ==
    [frame EXCEPT !.pc = "load", !.pending = {}, !.outcome = "rolled_back"]

Rollback(frame) ==
    [frame EXCEPT !.pc = "done", !.pending = {}, !.outcome = "rolled_back"]

\* What a raising send_lead_alert_email does to the run: the inner
\* `except Exception` logs and the loop goes on to `next_pc`.
on_alert_failure_propagate(frame, next_pc) == Rollback(frame)

on_alert_failure(frame, next_pc) == [frame EXCEPT !.pc = next_pc]

\* The call itself: a new session is opened for the lead id.
distribute_lead(r, lead_id) ==
    /\ runs[r].pc = "idle"
    /\ \A p \in RunIds : p < r => runs[p].pc # "idle"
    /\ runs' = [runs EXCEPT ![r] = [@ EXCEPT !.pc = "load",
                                             !.lead_id = lead_id]]
    /\ overlapped' = (overlapped \/ \E p \in RunIds : InProgress(runs[p]))
    /\ UNCHANGED <<leads, companies, notifications, alert_emails,
                   confirmation_emails, failed_emails, query_vars>>

\* Load the lead; return when it is missing or not active.
LoadLead(r) ==
    /\ runs[r].pc = "load"
    /\ LET lead == leads[runs[r].lead_id]
       IN  runs' = [runs EXCEPT ![r] =
                IF LeadIsDistributable(lead)
                THEN [@ EXCEPT !.pc = "match", !.lead = lead]
                ELSE [@ EXCEPT !.pc = "done", !.lead = lead,
                               !.outcome = "skipped"]]
    /\ UNCHANGED <<leads, companies, notifications, alert_emails,
                   confirmation_emails, failed_emails, overlapped,
                   query_vars>>

\* find_matching_companies; return when nothing matched.  The frame keeps
\* the companies of the returned list; the loop below takes them in any
\* order, as the list's order is the store's.
FindMatching(r) ==
    /\ runs[r].pc = "match"
    /\ \E rows \in Orderings(CandidateCompanies(companies)) :
        LET matching_companies ==
                find_matching_companies(runs[r].lead[1], companies, rows)
        IN  runs' = [runs EXCEPT ![r] =
                IF NoMatches(matching_companies)
                THEN [@ EXCEPT !.pc = "done", !.matched = TRUE,
                               !.seen = Some(companies),
                               !.outcome = "no_match"]
                ELSE [@ EXCEPT !.pc = "confirm", !.matched = TRUE,
                               !.seen = Some(companies),
                               !.matching_companies =
                                    Range(matching_companies),
                               !.todo = Range(matching_companies)]]
    /\ UNCHANGED <<leads, companies, notifications, alert_emails,
                   confirmation_emails, failed_emails, overlapped,
                   query_vars>>

\* send_customer_confirmation(lead); an exception is logged and dropped.
SendCustomerConfirmation(r, raises) ==
    /\ runs[r].pc = "confirm"
    /\ confirmation_emails' = confirmation_emails \cup {r}
    /\ failed_emails' = IF raises THEN failed_emails \cup {"customer"}
                        ELSE failed_emails
    /\ runs' = [runs EXCEPT ![r] =
            [@ EXCEPT !.pc = IF runs[r].todo # {} THEN "add" ELSE "commit"]]
    /\ UNCHANGED <<leads, companies, notifications, alert_emails,
                   overlapped, query_vars>>

\* One iteration of `for company in matching_companies`: the notification
\* record is created and db.add'ed, then send_lead_alert_email(company,
\* lead) is called.  The added row stays in the session until the commit,
\* so nothing another run can see lies between the two.
NotifyCompany(r, raises) ==
    /\ runs[r].pc = "add"
    /\ \E company \in runs[r].todo :
        LET row == LeadNotification(runs[r].lead_id, company, r)
            res == db_add(notifications, runs[r].pending, row)
            todo == runs[r].todo \ {company}
            next_pc == IF todo # {} THEN "add" ELSE "commit"
            frame == [runs[r] EXCEPT !.todo = todo, !.pending = res.pending]
        IN  /\ notifications' = res.table
            /\ alert_emails' = alert_emails \cup {<<r, company>>}
            /\ failed_emails' = IF raises
                                THEN failed_emails \cup {company}
                                ELSE failed_emails
            /\ runs' = [runs EXCEPT ![r] =
                    IF raises
                    THEN on_alert_failure(frame, next_pc)
                    ELSE [frame EXCEPT !.pc = next_pc]]
    /\ UNCHANGED <<leads, companies, confirmation_emails,
                   overlapped, query_vars>>

\* db.commit(): every pending row reaches the table in one transaction.
Commit(r) ==
    /\ runs[r].pc = "commit"
    /\ notifications' = notifications \cup runs[r].pending
    /\ runs' = [runs EXCEPT ![r] = [@ EXCEPT !.pc = "done", !.pending = {},
                                             !.outcome = "committed"]]
    /\ UNCHANGED <<leads, companies, alert_emails, confirmation_emails,
                   failed_emails, overlapped, query_vars>>

\* A store operation of the run (the lead query, the company query or the
\* commit) raises: control reaches the outer `except Exception`, which
\* rolls the session back.  The company query is only run for a lead that
\* has both pickup coordinates.
StoreFails(r) ==
    /\ runs[r].pc \in {"load", "match", "commit"}
    /\ runs[r].pc = "match" => HasPickupCoordinates(runs[r].lead[1])
    /\ runs' = [runs EXCEPT ![r] = Rollback([@ EXCEPT !.db_error = TRUE])]
    /\ UNCHANGED <<leads, companies, notifications, alert_emails,
                   confirmation_emails, failed_emails, overlapped,
                   query_vars>>

\* ------------------------------------------------------------------------
\* app/company_routes.py: POST /company/service-area
\* ------------------------------------------------------------------------
\* The radius is clamped to 1..500; the base moves when both hidden
\* coordinate fields are filled in.  Only an active company is logged in.
service_area_submit(c, radius, base) ==
    /\ companies[c].is_active
    /\ LET clamped == IF radius < 1 THEN 1
                      ELSE IF radius > 500 THEN 500 ELSE radius
       IN  companies' = [companies EXCEPT ![c] =
               IF base = None
               THEN [@ EXCEPT !.service_radius_miles = Some(clamped)]
               ELSE [@ EXCEPT !.service_radius_miles = Some(clamped),
                              !.base_lat = Some(base[1][1]),
                              !.base_lng = Some(base[1][2])]]
    /\ UNCHANGED <<leads, notifications, runs, alert_emails,
                   confirmation_emails, failed_emails, overlapped,
                   query_vars>>

Next ==
    \/ \E r \in RunIds, lead_id \in LeadIds : distribute_lead(r, lead_id)
    \/ \E r \in RunIds : LoadLead(r)
    \/ \E r \in RunIds : FindMatching(r)
    \/ \E r \in RunIds, raises \in BOOLEAN : SendCustomerConfirmation(r, raises)
    \/ \E r \in RunIds, raises \in BOOLEAN : NotifyCompany(r, raises)
    \/ \E r \in RunIds : Commit(r)
    \/ \E r \in RunIds : StoreFails(r)
    \/ \E c \in CompanyIds : service_area_submit(c, 30, Some(London))

Spec == Init /\ [][Next]_vars

\* ------------------------------------------------------------------------
\* find_matching_companies on its own: the inputs are drawn from bounded
\* sets and the function is applied once
\* ------------------------------------------------------------------------
QueryBases ==
    {<<None, None>>, <<Some(515), None>>, <<Some(910), Some(0)>>,
     <<Some(515), Some(-1810)>>}
    \cup {<<Some(p[1]), Some(p[2])>> :
            p \in {London, Barnet, Hatfield, Manchester, PoleEdge}}

QueryCompanyRows ==
    {Company(active, base[1], base[2], radius, min_cbm, max_cbm, types) :
        active \in BOOLEAN,
        base \in QueryBases,
        radius \in {None, Some(1), Some(14), Some(500)},
        min_cbm \in {None, Some(1500)},
        max_cbm \in {None, Some(0), Some(1500)},
        types \in {None, Some(<<>>), Some(<<House>>), Some(<< <<>> >>)}}

QueryCompanyRowsB ==
    {Company(TRUE, Some(London[1]), Some(London[2]), Some(500),
             None, None, None),
     Company(FALSE, Some(London[1]), Some(London[2]), Some(500),
             None, None, None)}

QueryLeadRows ==
    {Lead("active", pickup, cbm, ptype) :
        pickup \in {None, Pickup(Some(515), None),
                    Pickup(Some(London[1]), Some(London[2])),
                    Pickup(Some(910), Some(-1))},
        cbm \in {None, Some(1500), Some(2500)},
        ptype \in {None, Some(<<" ", "h", "o", "u", "s", "e", " ">>),
                   Some(Flat), Some(<<"h", "o", "u", "s", "e">>),
                   Some(<<>>)}}

InitMatch ==
    /\ q_lead \in QueryLeadRows
    /\ \E a \in QueryCompanyRows, b \in QueryCompanyRowsB :
            q_companies = [c \in CompanyIds |-> IF c = "A" THEN a ELSE b]
    /\ q_result = None
    /\ leads = [l \in LeadIds |-> None]
    /\ companies = q_companies
    /\ notifications = {}
    /\ runs = [r \in RunIds |-> IdleRun]
    /\ alert_emails = {}
    /\ confirmation_emails = {}
    /\ failed_emails = {}
    /\ overlapped = FALSE
    /\ PriceIdle
    /\ EstimateIdle
    /\ SurveyIdle
    /\ PurchaseIdle

ApplyMatch ==
    /\ q_result = None
    /\ \E rows \in Orderings(CandidateCompanies(q_companies)) :
        q_result' = Some(find_matching_companies(q_lead, q_companies, rows))
    /\ UNCHANGED <<q_lead, q_companies, dist_vars, price_vars,
                   estimate_vars, survey_vars, purchase_vars>>

NextMatch == ApplyMatch

SpecMatch == InitMatch /\ [][NextMatch]_vars

\* ------------------------------------------------------------------------
\* app/pricing.py: calculate_lead_price_pence
\* ------------------------------------------------------------------------
\* `return 1000  # Default GBP 10.00`
DEFAULT_PRICE_PENCE == 1000

\* The stand-in for a falsy max_cbm: 99999 cubic metres, in hundredths.
MAX_CBM_FALLBACK == 9999900

\* The query: .filter(is_active == True).order_by(min_cbm).all().  Rows
\* with equal min_cbm come in whatever order the store chooses.
ActiveTiersByMinCbmNoActiveFilter(table) ==
    LET ids == {t \in DOMAIN table : table[t] # None}
    IN  {s \in Orderings(ids) :
            \A i, j \in 1..Len(s) :
                i < j => table[s[i]][1].min_cbm <= table[s[j]][1].min_cbm}

ActiveTiersByMinCbm(table) ==
    LET ids == {t \in DOMAIN table :
                    table[t] # None /\ table[t][1].is_active}
    IN  {s \in Orderings(ids) :
            \A i, j \in 1..Len(s) :
                i < j => table[s[i]][1].min_cbm <= table[s[j]][1].min_cbm}

\* `float(tier.min_cbm) <= total_cbm <= max_cbm` with
\* `max_cbm = float(tier.max_cbm) if tier.max_cbm else 99999`.
TierCovers(tier, total_cbm) ==
    LET max_cbm == OrDefault(tier.max_cbm, MAX_CBM_FALLBACK)
    IN  tier.min_cbm <= total_cbm /\ total_cbm <= max_cbm

\* `rows` is the query result (tier ids in order); the loop returns the
\* price of the first tier that covers the volume.
RECURSIVE calculate_lead_price_pence(_, _, _)
calculate_lead_price_pence(total_cbm, table, rows) ==
    IF rows = <<>>
    THEN DEFAULT_PRICE_PENCE
    ELSE IF TierCovers(table[Head(rows)][1], total_cbm)
         THEN table[Head(rows)][1].price_pence
         ELSE calculate_lead_price_pence(total_cbm, table, Tail(rows))

\* price_pence of each tier of the model.
TierPrice == [t \in TierIds |->
                 IF t = "T1" THEN 1000 ELSE IF t = "T2" THEN 2000 ELSE 3500]

TierRows(t) ==
    {None} \cup
    {Some(LeadPricingTier(min_cbm, max_cbm, TierPrice[t], is_active)) :
        min_cbm \in {0, 1000, 3000},
        max_cbm \in {None, Some(0), Some(1000), Some(3000)},
        is_active \in BOOLEAN}

\* Volumes passed in: 0, 10, 25, 35 and 100000 cubic metres.
PriceVolumes == {0, 1000, 2500, 3500, 10000000}

InitPrice ==
    /\ \E t1 \in TierRows("T1"), t2 \in TierRows("T2"), t3 \in TierRows("T3") :
            tiers = [t \in TierIds |->
                        IF t = "T1" THEN t1 ELSE IF t = "T2" THEN t2 ELSE t3]
    /\ p_total_cbm \in PriceVolumes
    /\ p_result = None
    /\ leads = [l \in LeadIds |-> None]
    /\ companies = [c \in CompanyIds |->
                        Company(TRUE, None, None, None, None, None, None)]
    /\ notifications = {}
    /\ runs = [r \in RunIds |-> IdleRun]
    /\ alert_emails = {}
    /\ confirmation_emails = {}
    /\ failed_emails = {}
    /\ overlapped = FALSE
    /\ q_lead = None
    /\ q_companies = <<>>
    /\ q_result = None
    /\ EstimateIdle
    /\ SurveyIdle
    /\ PurchaseIdle

ApplyPrice ==
    /\ p_result = None
    /\ \E rows \in ActiveTiersByMinCbm(tiers) :
        p_result' = Some(calculate_lead_price_pence(p_total_cbm, tiers, rows))
    /\ UNCHANGED <<tiers, p_total_cbm, dist_vars, q_lead, q_companies,
                   q_result, estimate_vars, survey_vars, purchase_vars>>

NextPrice == ApplyPrice

SpecPrice == InitPrice /\ [][NextPrice]_vars

\* ------------------------------------------------------------------------
\* app/pricing.py: _access_cost (pounds)
\* ------------------------------------------------------------------------
PRICE_PER_FLOOR == 15

NO_LIFT_SURCHARGE == 50

PARKING_DISTANCE_PER_50M == 10

NARROW_ACCESS_FEE == 35

TIME_RESTRICTION_FEE == 25

BOOKING_REQUIRED_FEE == 20

OUTDOOR_STEPS_PER_5 == 15

OUTDOOR_PATH_FEE == 20

\* PARKING_FEES.get(parking, 0)
PARKING_FEES(parking) ==
    IF parking = "driveway" THEN 0
    ELSE IF parking = "street" THEN 25
    ELSE IF parking = "permit" THEN 40
    ELSE IF parking = "limited" THEN 60
    ELSE 0

\* The JSONB access dict; a key that is absent is None.
AccessData(floors, has_lift, parking_type, parking_distance_m, narrow_access, time_restriction, booking_required, outdoor_steps, outdoor_path) ==
    [floors |-> floors, has_lift |-> has_lift,
     parking_type |-> parking_type,
     parking_distance_m |-> parking_distance_m,
     narrow_access |-> narrow_access,
     time_restriction |-> time_restriction,
     booking_required |-> booking_required,
     outdoor_steps |-> outdoor_steps, outdoor_path |-> outdoor_path]

\* The dict {}: no key at all.
EmptyDict == AccessData(None, None, None, None, None, None, None, None, None)

\* dict.get(key) read for its truth value: an absent key is falsy.
Truthy(x) == x # None /\ x[1] = TRUE

\* `if floors > 0 and not access_data.get("has_lift", False)`
NoLiftSurchargeAppliesAnyFloor(floors, has_lift) == ~Truthy(has_lift)

NoLiftSurchargeApplies(floors, has_lift) == floors > 0 /\ ~Truthy(has_lift)

\* `increments = max(1, parking_distance // 50)` when the distance is > 0
ParkingDistanceFee(parking_distance) ==
    IF parking_distance > 0
    THEN LET floor_div == parking_distance \div 50
             increments == IF floor_div > 1 THEN floor_div ELSE 1
         IN  increments * PARKING_DISTANCE_PER_50M
    ELSE 0

\* `(outdoor_steps // 5 + (1 if outdoor_steps % 5 else 0)) * 15` when > 0
OutdoorStepsFee(outdoor_steps) ==
    IF outdoor_steps > 0
    THEN ((outdoor_steps \div 5)
            + (IF outdoor_steps % 5 # 0 THEN 1 ELSE 0)) * OUTDOOR_STEPS_PER_5
    ELSE 0

_access_cost(access_data) ==
    IF access_data = None \/ access_data[1] = EmptyDict
    THEN 0
    ELSE LET d == access_data[1]
             floors == OrDefault(d.floors, 0)
             parking == IF d.parking_type = None THEN "driveway"
                        ELSE d.parking_type[1]
             parking_distance == OrDefault(d.parking_distance_m, 0)
             outdoor_steps == OrDefault(d.outdoor_steps, 0)
         IN  floors * PRICE_PER_FLOOR
             + (IF NoLiftSurchargeApplies(floors, d.has_lift)
                THEN NO_LIFT_SURCHARGE ELSE 0)
             + PARKING_FEES(parking)
             + ParkingDistanceFee(parking_distance)
             + (IF Truthy(d.narrow_access) THEN NARROW_ACCESS_FEE ELSE 0)
             + (IF Truthy(d.time_restriction)
                THEN TIME_RESTRICTION_FEE ELSE 0)
             + (IF Truthy(d.booking_required)
                THEN BOOKING_REQUIRED_FEE ELSE 0)
             + OutdoorStepsFee(outdoor_steps)
             + (IF Truthy(d.outdoor_path) THEN OUTDOOR_PATH_FEE ELSE 0)

\* ------------------------------------------------------------------------
\* app/pricing.py: calculate_lead_estimate
\* ------------------------------------------------------------------------
\* Money inside the calculation is an integer number of half pence (1/200
\* of a pound), which holds every product of the rates below with a volume
\* or weight in hundredths and a distance in hundredths of a mile exactly.
\* The two estimates are whole pounds; the breakdown is in pence.
HALF_PENCE_PER_POUND == 200

BASE_FEE == 250

PRICE_PER_CBM == 35

BULKY_ITEM_FEE == 25

FRAGILE_ITEM_FEE == 15

WEIGHT_THRESHOLD_KG == 1000

\* PRICE_PER_KG_OVER = 0.50 and PRICE_PER_MILE = 1.50, in pence
PRICE_PER_KG_OVER == 50

PRICE_PER_MILE == 150

FREE_MILES == 10

\* LOW_MULTIPLIER = 0.85 and HIGH_MULTIPLIER = 1.25, in hundredths
LOW_MULTIPLIER == 85

HIGH_MULTIPLIER == 125

\* int(a / b) for b > 0: truncation toward zero.
IntTrunc(a, b) == IF a >= 0 THEN a \div b ELSE -((-a) \div b)

Max(a, b) == IF a >= b THEN a ELSE b

\* round(x, 2) of an amount in half pence, in pence; a half goes to the
\* even neighbour.
Round2(half_pence) ==
    LET lower == half_pence \div 2
    IN  IF half_pence % 2 = 0 THEN lower
        ELSE IF lower % 2 = 0 THEN lower ELSE lower + 1

\* The lead as calculate_lead_estimate reads it.
EstimateLead(total_cbm, total_weight_kg, bulky_items, fragile_items, pickup, dropoff, pickup_access, dropoff_access) ==
    [total_cbm |-> total_cbm, total_weight_kg |-> total_weight_kg,
     bulky_items |-> bulky_items, fragile_items |-> fragile_items,
     pickup |-> pickup, dropoff |-> dropoff,
     pickup_access |-> pickup_access, dropoff_access |-> dropoff_access]

\* `if lead.pickup and lead.dropoff` and `if all([pickup_lat, pickup_lng,
\* dropoff_lat, dropoff_lng])`: None and 0 are both falsy.
HasDistanceInputs(lead) ==
    /\ lead.pickup # None
    /\ lead.dropoff # None
    /\ \A x \in {lead.pickup[1].lat, lead.pickup[1].lng,
                  lead.dropoff[1].lat, lead.dropoff[1].lng} :
            x # None /\ x[1] # 0

\* Distance pricing, in half pence.
DistanceCost(lead) ==
    IF HasDistanceInputs(lead)
    THEN LET miles == calculate_distance_miles(
                          lead.pickup[1].lat[1], lead.pickup[1].lng[1],
                          lead.dropoff[1].lat[1], lead.dropoff[1].lng[1])
         IN  IF miles > FREE_MILES * 100
             THEN ((miles - FREE_MILES * 100) * PRICE_PER_MILE * 2) \div 100
             ELSE 0
    ELSE 0

\* CBM pricing, in half pence: `total_cbm * PRICE_PER_CBM`.
CbmCostFlat(total_cbm) == 0

CbmCost(total_cbm) ==
    (total_cbm * PRICE_PER_CBM * HALF_PENCE_PER_POUND) \div 100

calculate_lead_estimate(lead) ==
    LET total_cbm == OrDefault(lead.total_cbm, 0)
        total_weight == OrDefault(lead.total_weight_kg, 0)
        bulky_count == OrDefault(lead.bulky_items, 0)
        fragile_count == OrDefault(lead.fragile_items, 0)
        base == BASE_FEE * HALF_PENCE_PER_POUND
        cbm_cost == CbmCost(total_cbm)
        bulky_cost == bulky_count * BULKY_ITEM_FEE * HALF_PENCE_PER_POUND
        fragile_cost ==
            fragile_count * FRAGILE_ITEM_FEE * HALF_PENCE_PER_POUND
        weight_cost ==
            IF total_weight > WEIGHT_THRESHOLD_KG * 100
            THEN ((total_weight - WEIGHT_THRESHOLD_KG * 100)
                    * PRICE_PER_KG_OVER * 2) \div 100
            ELSE 0
        distance_cost == DistanceCost(lead)
        access_cost == (_access_cost(lead.pickup_access)
                          + _access_cost(lead.dropoff_access))
                       * HALF_PENCE_PER_POUND
        total == base + cbm_cost + bulky_cost + fragile_cost + weight_cost
                 + distance_cost + access_cost
    IN  [estimate_low |->
             Max(IntTrunc(total * LOW_MULTIPLIER,
                          100 * HALF_PENCE_PER_POUND), 150),
         estimate_high |->
             IntTrunc(total * HIGH_MULTIPLIER, 100 * HALF_PENCE_PER_POUND),
         breakdown |->
             [base_fee |-> Round2(base),
              cbm_cost |-> Round2(cbm_cost),
              bulky_surcharge |-> Round2(bulky_cost),
              fragile_surcharge |-> Round2(fragile_cost),
              weight_surcharge |-> Round2(weight_cost),
              distance_cost |-> Round2(distance_cost),
              access_cost |-> Round2(access_cost),
              total_before_range |-> Round2(total)]]

\* The stores of the other operations, at rest.
DistIdle ==
    /\ leads = [l \in LeadIds |-> None]
    /\ companies = [c \in CompanyIds |->
                        Company(TRUE, None, None, None, None, None, None)]
    /\ notifications = {}
    /\ runs = [r \in RunIds |-> IdleRun]
    /\ alert_emails = {}
    /\ confirmation_emails = {}
    /\ failed_emails = {}
    /\ overlapped = FALSE

QueryIdle ==
    /\ q_lead = None
    /\ q_companies = <<>>
    /\ q_result = None

\* The access records passed in: None, {} and dicts of the access form.
AccessInputs ==
    {None, Some(EmptyDict)} \cup
    {Some(AccessData(floors, has_lift, parking_type, parking_distance_m,
                     narrow_access, None, None, outdoor_steps,
                     outdoor_path)) :
        floors \in {None, Some(0), Some(3), Some(-9)},
        has_lift \in {None, Some(TRUE), Some(FALSE)},
        parking_type \in {None, Some("street"), Some("garage")},
        parking_distance_m \in {None, Some(0), Some(30), Some(50),
                                Some(75), Some(100), Some(120)},
        narrow_access \in {None, Some(TRUE), Some(FALSE)},
        outdoor_steps \in {None, Some(5), Some(7)},
        outdoor_path \in {Some(FALSE), Some(TRUE)}}

InitAccess ==
    /\ a_access_data \in AccessInputs
    /\ a_cost = None
    /\ e_lead = None
    /\ e_result = None
    /\ DistIdle
    /\ QueryIdle
    /\ PriceIdle
    /\ SurveyIdle
    /\ PurchaseIdle

ApplyAccess ==
    /\ a_cost = None
    /\ a_cost' = Some(_access_cost(a_access_data))
    /\ UNCHANGED <<a_access_data, e_lead, e_result, dist_vars, q_lead,
                   q_companies, q_result, price_vars, survey_vars,
                   purchase_vars>>

NextAccess == ApplyAccess

SpecAccess == InitAccess /\ [][NextAccess]_vars

\* Volumes of the estimate inputs: unset, 0, 0.01, 0.05, 0.06, 5 and 50.
EstimateVolumes ==
    {None, Some(0), Some(1), Some(5), Some(6), Some(500), Some(5000)}

EstimateAccessInputs ==
    {None, Some(EmptyDict),
     Some(AccessData(Some(3), Some(FALSE), Some("street"), Some(75),
                     Some(FALSE), Some(FALSE), Some(FALSE), Some(0),
                     Some(FALSE))),
     Some(AccessData(Some(-9), Some(FALSE), Some("driveway"), Some(0),
                     Some(FALSE), Some(FALSE), Some(FALSE), Some(0),
                     Some(FALSE)))}

EstimateLeads ==
    {EstimateLead(total_cbm, total_weight_kg, bulky_items, fragile_items,
                  pickup, dropoff, pickup_access, dropoff_access) :
        total_cbm \in EstimateVolumes,
        total_weight_kg \in {None, Some(100000), Some(120001)},
        bulky_items \in {None, Some(4)},
        fragile_items \in {Some(0), Some(2)},
        pickup \in {None, Pickup(Some(London[1]), None),
                    Pickup(Some(London[1]), Some(London[2])),
                    Pickup(Some(Greenwich[1]), Some(Greenwich[2]))},
        dropoff \in {None, Pickup(Some(London[1]), Some(London[2])),
                     Pickup(Some(Manchester[1]), Some(Manchester[2])),
                     Pickup(Some(Greenwich[1]), Some(Greenwich[2]))},
        pickup_access \in EstimateAccessInputs,
        dropoff_access \in {None, Some(EmptyDict)}}

InitEstimate ==
    /\ e_lead \in EstimateLeads
    /\ e_result = None
    /\ a_access_data = None
    /\ a_cost = None
    /\ DistIdle
    /\ QueryIdle
    /\ PriceIdle
    /\ SurveyIdle
    /\ PurchaseIdle

ApplyEstimate ==
    /\ e_result = None
    /\ e_result' = Some(calculate_lead_estimate(e_lead))
    /\ UNCHANGED <<e_lead, a_access_data, a_cost, dist_vars, q_lead,
                   q_companies, q_result, price_vars, survey_vars,
                   purchase_vars>>

NextEstimate == ApplyEstimate

SpecEstimate == InitEstimate /\ [][NextEstimate]_vars

\* ------------------------------------------------------------------------
\* app/main.py: the consumer survey of one token
\* ------------------------------------------------------------------------
\* LEAD_EXPIRY_DAYS = 14; the clock of the model counts days.
LEAD_EXPIRY_DAYS == 14

\* The number of POSTs of the contact step the model follows.
MaxContactPosts == 2

\* The row start_survey inserts: the column defaults of app/models.py.
NewLead ==
    [status |-> "in_progress", pickup |-> None, dropoff |-> None,
     distance_miles |-> None, property_type |-> None,
     pickup_access |-> None, dropoff_access |-> None,
     total_cbm |-> Some(0), total_weight_kg |-> Some(0),
     total_items |-> Some(0), bulky_items |-> Some(0),
     fragile_items |-> Some(0), estimate_low |-> None,
     estimate_high |-> None, submitted_at |-> None, expires_at |-> None,
     lead_price_pence |-> None]

\* A LeadItem row: volume in hundredths of a cubic metre, weight in
\* hundredths of a kilogram.
LeadItem(name, qty, cbm, weight_kg, bulky, fragile) ==
    [name |-> name, qty |-> qty, cbm |-> cbm, weight_kg |-> weight_kg,
     bulky |-> bulky, fragile |-> fragile]

\* The items the vision service may report for the photos of a room.
ItemCatalogue ==
    {LeadItem("sofa", Some(1), Some(150), Some(4000), TRUE, FALSE),
     LeadItem("boxes", Some(10), Some(10), None, FALSE, TRUE)}

\* The access forms the model submits: ground floor with a driveway, and a
\* third floor without a lift, 75 m from street parking.
AccessForms ==
    {AccessData(Some(0), Some(FALSE), Some("driveway"), Some(0),
                Some(FALSE), Some(FALSE), Some(FALSE), Some(0),
                Some(FALSE)),
     AccessData(Some(3), Some(FALSE), Some("street"), Some(75),
                Some(FALSE), Some(FALSE), Some(FALSE), Some(0),
                Some(FALSE))}

\* The places the map step submits.
SurveyPlaces == {London, Manchester}

\* The pricing tiers of the survey model: 0-10 m3 and 10-30 m3.
SurveyTiers ==
    [t \in TierIds |->
        IF t = "T1" THEN Some(LeadPricingTier(0, Some(1000), 1000, TRUE))
        ELSE IF t = "T2"
             THEN Some(LeadPricingTier(1000, Some(3000), 2000, TRUE))
             ELSE None]

\* The loop of survey_review_post over lead.rooms and room.items.
RECURSIVE ItemTotals(_)
ItemTotals(items) ==
    IF items = {}
    THEN [total_cbm |-> 0, total_weight_kg |-> 0, total_items |-> 0,
          bulky_items |-> 0, fragile_items |-> 0]
    ELSE LET item == CHOOSE i \in items : TRUE
             rest == ItemTotals(items \ {item})
             qty == OrDefault(item.qty, 1)
         IN  [total_cbm |-> rest.total_cbm + OrDefault(item.cbm, 0) * qty,
              total_weight_kg |->
                  rest.total_weight_kg + OrDefault(item.weight_kg, 0) * qty,
              total_items |-> rest.total_items + qty,
              bulky_items |->
                  rest.bulky_items + (IF item.bulky THEN qty ELSE 0),
              fragile_items |->
                  rest.fragile_items + (IF item.fragile THEN qty ELSE 0)]

\* GET /start: a new Lead row with a fresh token.
start_survey ==
    /\ s_lead = None
    /\ s_lead' = Some(NewLead)
    /\ UNCHANGED <<s_items, s_now, s_tasks, dist_vars, q_lead, q_companies,
                   q_result, price_vars, estimate_vars, purchase_vars>>

\* POST /survey/{token}/map.  get_lead_or_404 looks the lead up by its
\* token alone; the handler does not read lead.status.
survey_map_post(pickup, dropoff) ==
    /\ s_lead # None
    /\ s_lead' = Some([s_lead[1] EXCEPT
            !.pickup = Pickup(Some(pickup[1]), Some(pickup[2])),
            !.dropoff = Pickup(Some(dropoff[1]), Some(dropoff[2])),
            !.distance_miles =
                Some(calculate_distance_miles(pickup[1], pickup[2],
                                              dropoff[1], dropoff[2]))])
    /\ UNCHANGED <<s_items, s_now, s_tasks, dist_vars, q_lead, q_companies,
                   q_result, price_vars, estimate_vars, purchase_vars>>

\* POST /survey/{token}/property
survey_property_post(property_type) ==
    /\ s_lead # None
    /\ s_lead' = Some([s_lead[1] EXCEPT !.property_type =
                                            Some(property_type)])
    /\ UNCHANGED <<s_items, s_now, s_tasks, dist_vars, q_lead, q_companies,
                   q_result, price_vars, estimate_vars, purchase_vars>>

\* POST /survey/{token}/access
survey_access_post(pickup_access, dropoff_access) ==
    /\ s_lead # None
    /\ s_lead' = Some([s_lead[1] EXCEPT
            !.pickup_access = Some(pickup_access),
            !.dropoff_access = Some(dropoff_access)])
    /\ UNCHANGED <<s_items, s_now, s_tasks, dist_vars, q_lead, q_companies,
                   q_result, price_vars, estimate_vars, purchase_vars>>

\* POST /survey/{token}/room/{room_id}/upload: the items extracted from the
\* photos are persisted as LeadItem rows of the room.
survey_room_upload(items) ==
    /\ s_lead # None
    /\ s_items' = s_items \cup items
    /\ UNCHANGED <<s_lead, s_now, s_tasks, dist_vars, q_lead, q_companies,
                   q_result, price_vars, estimate_vars, purchase_vars>>

\* POST /survey/{token}/review: the inventory totals are written to the
\* lead and the estimate is computed from the lead as it then stands.
survey_review_post ==
    /\ s_lead # None
    /\ LET totals == ItemTotals(s_items)
           lead == [s_lead[1] EXCEPT
                       !.total_cbm = Some(totals.total_cbm),
                       !.total_weight_kg = Some(totals.total_weight_kg),
                       !.total_items = Some(totals.total_items),
                       !.bulky_items = Some(totals.bulky_items),
                       !.fragile_items = Some(totals.fragile_items)]
           estimate == calculate_lead_estimate(lead)
       IN  s_lead' = Some([lead EXCEPT
               !.estimate_low = Some(estimate.estimate_low),
               !.estimate_high = Some(estimate.estimate_high)])
    /\ UNCHANGED <<s_items, s_now, s_tasks, dist_vars, q_lead, q_companies,
                   q_result, price_vars, estimate_vars, purchase_vars>>

\* background_tasks.add_task(lead_matching.distribute_lead, lead.id)
add_task(tasks) == tasks + 1

\* POST /survey/{token}/contact at time `now`: the lead becomes active with
\* its timestamps and its price, the session is committed, and then the
\* distribution task is scheduled and the redirect returned.
survey_contact_post(now) ==
    /\ s_lead # None
    /\ s_tasks < MaxContactPosts
    /\ \E rows \in ActiveTiersByMinCbm(tiers) :
        s_lead' = Some([s_lead[1] EXCEPT
            !.status = "active",
            !.submitted_at = Some(now),
            !.expires_at = Some(now + LEAD_EXPIRY_DAYS),
            !.lead_price_pence =
                Some(calculate_lead_price_pence(
                         OrDefault(s_lead[1].total_cbm, 0), tiers, rows))])
    /\ s_now' = now
    /\ s_tasks' = add_task(s_tasks)
    /\ UNCHANGED <<s_items, dist_vars, q_lead, q_companies, q_result,
                   price_vars, estimate_vars, purchase_vars>>

\* app/admin_routes.py: POST /admin/pricing/{tier_id}/toggle
admin_toggle_pricing_tier(tier_id) ==
    /\ LET tier == tiers[tier_id]
       IN  tiers' = [tiers EXCEPT ![tier_id] =
                IF tier # None
                THEN Some([tier[1] EXCEPT !.is_active = ~tier[1].is_active])
                ELSE tier]
    /\ UNCHANGED <<p_total_cbm, p_result, survey_vars, dist_vars, q_lead,
                   q_companies, q_result, estimate_vars, purchase_vars>>

InitSurvey ==
    /\ SurveyIdle
    /\ PurchaseIdle
    /\ tiers = SurveyTiers
    /\ p_total_cbm = 0
    /\ p_result = None
    /\ DistIdle
    /\ QueryIdle
    /\ EstimateIdle

NextSurvey ==
    \/ start_survey
    \/ \E pickup \in SurveyPlaces, dropoff \in SurveyPlaces :
            survey_map_post(pickup, dropoff)
    \/ \E property_type \in {House, Flat} :
            survey_property_post(property_type)
    \/ \E pickup_access \in AccessForms, dropoff_access \in AccessForms :
            survey_access_post(pickup_access, dropoff_access)
    \/ \E items \in SUBSET ItemCatalogue : survey_room_upload(items)
    \/ survey_review_post
    \/ \E now \in {s_now, s_now + 1} : survey_contact_post(now)
    \/ \E tier_id \in TierIds : admin_toggle_pricing_tier(tier_id)

SpecSurvey == InitSurvey /\ [][NextSurvey]_vars

\* ------------------------------------------------------------------------
\* app/company_routes.py and app/stripe_billing.py: purchase of a lead
\* ------------------------------------------------------------------------
\* The variables the purchase handlers leave alone.
non_purchase_vars ==
    <<dist_vars, q_lead, q_companies, q_result, price_vars, estimate_vars,
      survey_vars>>

\* A LeadPurchase row.  The price column takes no part in the transitions
\* and is left out.
LeadPurchase(id, lead_id, company_id, session, payment_status, paid_at) ==
    [id |-> id, lead_id |-> lead_id, company_id |-> company_id,
     stripe_checkout_session_id |-> session,
     payment_status |-> payment_status, paid_at |-> paid_at,
     stripe_payment_intent_id |-> None]

\* A Stripe Checkout Session: its metadata, its payment status and the
\* payment intent it carries once paid.
CheckoutSession(lead_id, company_id, type) ==
    [lead_id |-> lead_id, company_id |-> company_id, type |-> type,
     payment_status |-> "unpaid", payment_intent |-> None]

\* A LeadNotification row with its funnel timestamp.
PurchasableNotification(lead_id, company_id) ==
    [lead_id |-> lead_id, company_id |-> company_id, purchased_at |-> None]

\* db.query(LeadPurchase).filter(lead_id == .., company_id == ..)
PurchasesOf(table, lead_id, company_id) ==
    {p \in table : p.lead_id = lead_id /\ p.company_id = company_id}

\* db.query(LeadPurchase).filter(stripe_checkout_session_id == ..)
PurchasesOfSession(table, session) ==
    {p \in table : p.stripe_checkout_session_id = Some(session)}

\* Index("idx_purchase_company_lead", "company_id", "lead_id",
\* unique=True): the store rejects a second row for the pair.
UniqueViolationNever(table, lead_id, company_id) == FALSE

UniqueViolation(table, lead_id, company_id) ==
    PurchasesOf(table, lead_id, company_id) # {}

\* The primary key of a new row.
NewPurchaseId(table) == Cardinality(table) + 1

\* The row of the given primary key, as the table holds it now.
PurchaseById(table, id) == CHOOSE p \in table : p.id = id

\* UPDATE lead_purchases SET payment_status = 'paid', paid_at = now,
\* stripe_payment_intent_id = intent WHERE id = ..
MarkPaid(table, id, now, intent) ==
    LET row == PurchaseById(table, id)
    IN  (table \ {row}) \cup
        {[row EXCEPT !.payment_status = "paid", !.paid_at = Some(now),
                     !.stripe_payment_intent_id = intent]}

\* notification = query(LeadNotification).filter(lead, company).first();
\* `if notification: notification.purchased_at = now`
MarkPurchased(table, lead_id, company_id, now) ==
    LET rows == {n \in table : n.lead_id = lead_id
                                /\ n.company_id = company_id}
    IN  IF rows = {}
        THEN {table}
        ELSE {(table \ {n}) \cup {[n EXCEPT !.purchased_at = Some(now)]} :
                n \in rows}

\* The slot a new request takes: the first one that is idle.
Free(h) ==
    \A g \in HandlerIds : g <= h => ((handlers[g].pc = "idle") <=> (g = h))

\* The session ids Stripe has not handed out yet.
UnusedSessions == {s \in SessionIds : checkout_sessions[s] = None}

\* The handler answers with `response` and its session is closed: the
\* request leaves the requests in flight, which stay in arrival order.
Respond(h, response) ==
    [g \in HandlerIds |->
        IF g < h THEN handlers[g]
        ELSE IF g + 1 \in HandlerIds THEN handlers[g + 1] ELSE IdleHandler]

\* handler h begins a request of the given kind
Begin(h, kind, company, lead_id) ==
    [IdleHandler EXCEPT !.kind = kind, !.company = company,
                        !.lead_id = lead_id]

\* POST /company/leads/{lead_id}/purchase, up to the creation of the
\* Checkout Session: the lead lookup, the test for an existing purchase of
\* the pair, and stripe.checkout.Session.create with the route's metadata
\* (lead_id, company_id, price_pence: no "type").
lead_purchase(h, company, lead_id) ==
    /\ Free(h)
    /\ companies[company].is_active
    /\ LET frame == Begin(h, "lead_purchase", company, lead_id)
       IN  IF leads[lead_id] = None
           THEN /\ handlers' = Respond(h, "404")
                /\ UNCHANGED checkout_sessions
           ELSE IF PurchasesOf(purchases, lead_id, company) # {}
           THEN /\ handlers' = Respond(h, "already_purchased")
                /\ UNCHANGED checkout_sessions
           ELSE IF stripe_available
           THEN /\ UnusedSessions # {}
                /\ LET s == CHOOSE x \in UnusedSessions :
                                \A y \in UnusedSessions : x <= y
                   IN  /\ checkout_sessions' =
                            [checkout_sessions EXCEPT ![s] =
                                Some(CheckoutSession(lead_id, company, None))]
                       /\ handlers' = [handlers EXCEPT ![h] =
                            [frame EXCEPT !.pc = "insert",
                                          !.session = Some(s)]]
           ELSE IF app_env # "development"
           THEN /\ handlers' = Respond(h, "503")
                /\ UNCHANGED checkout_sessions
           ELSE /\ handlers' = [handlers EXCEPT ![h] =
                                    [frame EXCEPT !.pc = "dev_insert"]]
                /\ UNCHANGED checkout_sessions
    /\ UNCHANGED <<purchases, stripe_events, lead_notifications, clock,
                   stripe_available, app_env, non_purchase_vars>>

\* stripe_billing.create_lead_purchase_session, up to the creation of the
\* Checkout Session, whose metadata carries type "lead_purchase".
create_lead_purchase_session(h, company, lead_id) ==
    /\ Free(h)
    /\ stripe_available
    /\ leads[lead_id] # None
    /\ UnusedSessions # {}
    /\ LET s == CHOOSE x \in UnusedSessions :
                    \A y \in UnusedSessions : x <= y
       IN  /\ checkout_sessions' =
                [checkout_sessions EXCEPT ![s] =
                    Some(CheckoutSession(lead_id, company,
                                         Some("lead_purchase")))]
           /\ handlers' = [handlers EXCEPT ![h] =
                [Begin(h, "create_lead_purchase_session", company, lead_id)
                    EXCEPT !.pc = "insert", !.session = Some(s)]]
    /\ UNCHANGED <<purchases, stripe_events, lead_notifications, clock,
                   stripe_available, app_env, non_purchase_vars>>

\* The pending purchase record: db.add(purchase); db.commit().  A row the
\* unique index rejects makes the commit raise: the route answers 502, the
\* billing function propagates; the Checkout Session stays at Stripe.
InsertPending(h) ==
    /\ handlers[h].pc = "insert"
    /\ LET frame == handlers[h]
       IN  IF UniqueViolation(purchases, frame.lead_id, frame.company)
           THEN /\ handlers' = Respond(h, "rejected")
                /\ UNCHANGED purchases
           ELSE /\ purchases' = purchases \cup
                        {LeadPurchase(NewPurchaseId(purchases),
                                      frame.lead_id, frame.company,
                                      frame.session, "pending", None)}
                /\ handlers' = Respond(h, "checkout")
    /\ UNCHANGED <<checkout_sessions, stripe_events, lead_notifications,
                   clock, stripe_available, app_env, non_purchase_vars>>

\* The development branch of lead_purchase: a paid purchase is added, the
\* notification of the pair is marked, and both are committed together.
InsertPaid(h) ==
    /\ handlers[h].pc = "dev_insert"
    /\ LET frame == handlers[h]
       IN  IF UniqueViolation(purchases, frame.lead_id, frame.company)
           THEN /\ handlers' = Respond(h, "rejected")
                /\ UNCHANGED <<purchases, lead_notifications, clock>>
           ELSE /\ purchases' = purchases \cup
                        {LeadPurchase(NewPurchaseId(purchases),
                                      frame.lead_id, frame.company,
                                      None, "paid", Some(clock))}
                /\ lead_notifications' \in
                        MarkPurchased(lead_notifications, frame.lead_id,
                                      frame.company, clock)
                /\ clock' = clock + 1
                /\ handlers' = Respond(h, "purchased")
    /\ UNCHANGED <<checkout_sessions, stripe_events, stripe_available,
                   app_env, non_purchase_vars>>

\* Stripe's side: the card payment of a Checkout Session goes through.
\* Stripe is not part of the repository; a session can complete at any
\* time after Stripe has created it.
CompleteCheckout(s) ==
    /\ checkout_sessions[s] # None
    /\ checkout_sessions[s][1].payment_status = "unpaid"
    /\ checkout_sessions' = [checkout_sessions EXCEPT ![s] =
            Some([@[1] EXCEPT !.payment_status = "paid",
                              !.payment_intent = Some(s)])]
    /\ UNCHANGED <<purchases, stripe_events, lead_notifications, handlers,
                   clock, stripe_available, app_env, non_purchase_vars>>

\* `if purchase and purchase.payment_status != "paid"` of
\* purchase_success: neither checkout_session.payment_status nor
\* purchase.company_id is compared with anything.
SuccessMayMarkPaid(purchase, checkout_session, company) ==
    purchase.payment_status # "paid"

\* GET /company/purchase-success?session_id=..: the session is retrieved
\* from Stripe and the purchase of the session id is read.
purchase_success(h, company, s) ==
    /\ Free(h)
    /\ companies[company].is_active
    /\ checkout_sessions[s] # None
    /\ LET checkout_session == checkout_sessions[s][1]
           frame == [Begin(h, "purchase_success", company,
                           checkout_session.lead_id)
                        EXCEPT !.session = Some(s)]
           found == PurchasesOfSession(purchases, s)
       IN  IF ~stripe_available \/ found = {}
           THEN handlers' = Respond(h, "shown")
           ELSE \E purchase \in found :
                    handlers' =
                        IF SuccessMayMarkPaid(purchase, checkout_session,
                                              company)
                        THEN [handlers EXCEPT ![h] = [frame EXCEPT
                                !.pc = "mark_success",
                                !.lead_id = purchase.lead_id,
                                !.purchase = Some(purchase.id),
                                !.intent = checkout_session.payment_intent]]
                        ELSE Respond(h, "shown")
    /\ UNCHANGED <<purchases, checkout_sessions, stripe_events,
                   lead_notifications, clock, stripe_available, app_env,
                   non_purchase_vars>>

\* The writes of purchase_success and its commit: the purchase becomes
\* paid, the payment intent is stored when the session has one, and the
\* notification of (purchase.lead_id, the logged-in company) is marked.
MarkPaidFromSuccess(h) ==
    /\ handlers[h].pc = "mark_success"
    /\ LET frame == handlers[h]
           row == PurchaseById(purchases, frame.purchase[1])
           intent == IF frame.intent # None THEN frame.intent
                     ELSE row.stripe_payment_intent_id
       IN  /\ purchases' = MarkPaid(purchases, row.id, clock, intent)
           /\ lead_notifications' \in
                MarkPurchased(lead_notifications, row.lead_id,
                              frame.company, clock)
           /\ handlers' = Respond(h, "marked")
    /\ clock' = clock + 1
    /\ UNCHANGED <<checkout_sessions, stripe_events, stripe_available,
                   app_env, non_purchase_vars>>

\* `if metadata.get("type") != "lead_purchase": return`
IsLeadPurchaseEvent(session_data) == session_data.type = Some("lead_purchase")

\* POST /webhooks/stripe with the checkout.session.completed event of
\* session s (the event id stands for the session): the idempotency test
\* on the StripeEvent row, the insert of the row, and
\* handle_checkout_completed up to its reading of the purchase.  A return
\* of handle_checkout_completed is followed by `processed = True` and the
\* commit.  The row of an event another request has flushed and not yet
\* committed makes the insert fail on the unique stripe_event_id.
stripe_webhook(h, s) ==
    /\ Free(h)
    /\ checkout_sessions[s] # None
    /\ checkout_sessions[s][1].payment_status = "paid"
    /\ LET session_data == checkout_sessions[s][1]
           frame == [Begin(h, "stripe_webhook", session_data.company_id,
                           session_data.lead_id)
                        EXCEPT !.session = Some(s),
                               !.intent = session_data.payment_intent]
           found == PurchasesOfSession(purchases, s)
           pending == {p \in found : p.payment_status # "paid"}
       IN  IF s \in stripe_events
           THEN /\ handlers' = Respond(h, "already_processed")
                /\ UNCHANGED stripe_events
           ELSE IF \E g \in HandlerIds :
                        /\ handlers[g].pc = "mark_webhook"
                        /\ handlers[g].session = Some(s)
           THEN /\ handlers' = Respond(h, "error")
                /\ UNCHANGED stripe_events
           ELSE IF ~IsLeadPurchaseEvent(session_data) \/ pending = {}
           THEN /\ handlers' = Respond(h, "processed")
                /\ stripe_events' = stripe_events \cup {s}
           ELSE /\ \E purchase \in pending :
                    handlers' = [handlers EXCEPT ![h] =
                        [frame EXCEPT !.pc = "mark_webhook",
                                      !.purchase = Some(purchase.id)]]
                /\ UNCHANGED stripe_events
    /\ UNCHANGED <<purchases, checkout_sessions, lead_notifications, clock,
                   stripe_available, app_env, non_purchase_vars>>

\* The writes of handle_checkout_completed and its commit, then
\* `stripe_event.processed = True` and the commit of handle_stripe_webhook
\* (the two commits follow each other and are one step here).
MarkPaidFromWebhook(h) ==
    /\ handlers[h].pc = "mark_webhook"
    /\ LET frame == handlers[h]
           row == PurchaseById(purchases, frame.purchase[1])
       IN  /\ purchases' = MarkPaid(purchases, row.id, clock, frame.intent)
           /\ lead_notifications' \in
                MarkPurchased(lead_notifications, frame.lead_id,
                              frame.company, clock)
           /\ stripe_events' = stripe_events \cup {frame.session[1]}
           /\ handlers' = Respond(h, "processed")
    /\ clock' = clock + 1
    /\ UNCHANGED <<checkout_sessions, stripe_available, app_env,
                   non_purchase_vars>>

\* The lead the companies are offered is active or still in the survey.
\* Only a lead that was distributed has a notification row.
InitPurchase ==
    /\ \E status \in {"active", "in_progress"} :
        /\ leads = [l \in LeadIds |->
                IF l = "L1"
                THEN Some(Lead(status, Pickup(Some(London[1]),
                               Some(London[2])), Some(1500), Some(House)))
                ELSE None]
        /\ lead_notifications =
                IF status = "in_progress" THEN {}
                ELSE {PurchasableNotification("L1", "A")}
    /\ companies = [c \in CompanyIds |->
            Company(TRUE, Some(London[1]), Some(London[2]), Some(30),
                    None, None, None)]
    /\ notifications = {}
    /\ runs = [r \in RunIds |-> IdleRun]
    /\ alert_emails = {}
    /\ confirmation_emails = {}
    /\ failed_emails = {}
    /\ overlapped = FALSE
    /\ purchases = {}
    /\ checkout_sessions = [s \in SessionIds |-> None]
    /\ stripe_events = {}
    /\ handlers = [h \in HandlerIds |-> IdleHandler]
    /\ clock = 0
    /\ \E mode \in {<<TRUE, "production">>, <<FALSE, "development">>,
                    <<FALSE, "production">>} :
            stripe_available = mode[1] /\ app_env = mode[2]
    /\ QueryIdle
    /\ PriceIdle
    /\ EstimateIdle
    /\ SurveyIdle

\* The companies whose purchases start in the purchase route, and those
\* whose Checkout Sessions come from create_lead_purchase_session.  Either
\* company may open the success page of any session.
RouteBuyers == {"A"}

BillingBuyers == {"B"}

NextPurchase ==
    \/ \E h \in HandlerIds, c \in RouteBuyers, l \in LeadIds :
            lead_purchase(h, c, l)
    \/ \E h \in HandlerIds, c \in BillingBuyers, l \in LeadIds :
            create_lead_purchase_session(h, c, l)
    \/ \E h \in HandlerIds : InsertPending(h)
    \/ \E h \in HandlerIds : InsertPaid(h)
    \/ \E s \in SessionIds : CompleteCheckout(s)
    \/ \E h \in HandlerIds, c \in CompanyIds, s \in SessionIds :
            purchase_success(h, c, s)
    \/ \E h \in HandlerIds : MarkPaidFromSuccess(h)
    \/ \E h \in HandlerIds, s \in SessionIds : stripe_webhook(h, s)
    \/ \E h \in HandlerIds : MarkPaidFromWebhook(h)

SpecPurchase == InitPurchase /\ [][NextPurchase]_vars

\* ------------------------------------------------------------------------
\* Properties
\* ------------------------------------------------------------------------
RowsOf(l, c) ==
    {n \in notifications : n.lead_id = l /\ n.company_id = c}

RowsBy(r) == {n \in notifications : n.run = r}

CompaniesOf(rows) == {n.company_id : n \in rows}

AlertsOf(l, c) ==
    {e \in alert_emails : e[2] = c /\ runs[e[1]].lead_id = l}

AlertsBy(r) == {e[2] : e \in {a \in alert_emails : a[1] = r}}

ConfirmationsOf(l) == {r \in confirmation_emails : runs[r].lead_id = l}

\* The runs that committed for lead l.
CommittedRuns(l) ==
    {r \in RunIds : runs[r].lead_id = l /\ runs[r].outcome = "committed"}

\* C1: after two or more invocations of distribute_lead that ran one after
\* the other for the same active lead and found the same companies, the
\* table holds exactly one LeadNotification row for each matched
\* (lead, company) pair.
C1_DistributionIdempotent ==
    \A l \in LeadIds :
        (/\ ~overlapped
         /\ Cardinality(CommittedRuns(l)) >= 2
         /\ \A r1, r2 \in CommittedRuns(l) : runs[r1].seen = runs[r2].seen) =>
            \A r \in CommittedRuns(l) :
                \A c \in runs[r].matching_companies :
                    Cardinality(RowsOf(l, c)) = 1

\* C2: when distribute_lead invocations for a lead overlap in time, there
\* is at most one LeadNotification row and at most one alert email for each
\* (lead, company) pair.
C2_ConcurrentRunsDeduplicated ==
    overlapped =>
        \A l \in LeadIds, c \in CompanyIds :
            /\ Cardinality(RowsOf(l, c)) <= 1
            /\ Cardinality(AlertsOf(l, c)) <= 1

\* C3: over any sequence of runs send_lead_alert_email is called at most
\* once for each (lead, company) pair.
C3_AlertAtMostOnce ==
    \A l \in LeadIds, c \in CompanyIds : Cardinality(AlertsOf(l, c)) <= 1

\* C4: the rows of a run reach the table all together in its final commit:
\* the table never holds rows of a run for only part of its matched set,
\* and a run that was rolled back has added no row.
C4_RowsCommittedAtomically ==
    \A r \in RunIds :
        LET mine == CompaniesOf(RowsBy(r))
        IN  /\ mine = {} \/ mine = runs[r].matching_companies
            /\ mine # {} => runs[r].pc = "done"
                            /\ runs[r].outcome = "committed"
            /\ runs[r].outcome = "rolled_back" => mine = {}

\* C4 witness: a run matched two companies, added both rows to its session,
\* failed, and left no row behind.
C4_Witness ==
    \E r \in RunIds :
        /\ runs[r].outcome = "rolled_back"
        /\ Cardinality(runs[r].matching_companies) = 2
        /\ runs[r].todo = {}
        /\ RowsBy(r) = {}

\* C5: a run whose store operations all succeed ends committed, with a row
\* and an attempted alert email for every matched company and with the
\* customer confirmation attempted, whichever of the sends raised.
C5_EmailFailuresIsolated ==
    \A r \in RunIds :
        (/\ runs[r].pc = "done"
         /\ runs[r].matched
         /\ runs[r].matching_companies # {}
         /\ ~runs[r].db_error) =>
            /\ runs[r].outcome = "committed"
            /\ CompaniesOf(RowsBy(r)) = runs[r].matching_companies
            /\ AlertsBy(r) = runs[r].matching_companies
            /\ r \in confirmation_emails

\* C5 witness: the only run so far matched two companies, the confirmation
\* and the alert of one of them raised, the other alert was still attempted
\* and the run committed both rows.
C5_Witness ==
    /\ runs[1].pc = "done"
    /\ runs[1].outcome = "committed"
    /\ Cardinality(runs[1].matching_companies) = 2
    /\ \A r \in RunIds : r # 1 => runs[r].pc = "idle"
    /\ \E c \in runs[1].matching_companies :
            failed_emails = {"customer", c}
    /\ AlertsBy(1) = runs[1].matching_companies
    /\ Cardinality(RowsBy(1)) = 2

\* C6: a run that found its lead missing, or with a status other than
\* 'active', creates no row, sends no email and returns without running
\* the matching.
C6_SkipsMissingOrInactiveLead ==
    \A r \in RunIds :
        (/\ runs[r].pc \notin {"idle", "load"}
         /\ \/ runs[r].lead = None
            \/ runs[r].lead[1].status # "active") =>
            /\ ~runs[r].matched
            /\ RowsBy(r) = {} /\ runs[r].pending = {}
            /\ AlertsBy(r) = {}
            /\ r \notin confirmation_emails
            /\ runs[r].pc = "done"
            /\ runs[r].outcome \in {"skipped", "rolled_back"}
            /\ runs[r].outcome = "rolled_back" => runs[r].db_error

\* C6 witness: one run returned for a lead id with no row, another for a
\* lead that exists with a status other than 'active'.
C6_Witness ==
    \E r1, r2 \in RunIds :
        /\ runs[r1].outcome = "skipped"
        /\ leads[runs[r1].lead_id] = None
        /\ runs[r2].outcome = "skipped"
        /\ runs[r2].lead # None
        /\ runs[r2].lead[1].status \in LeadStatuses \ {"active"}

\* C7: a run whose matching returned no company creates no row, sends no
\* email (neither alert nor customer confirmation) and ends normally.
C7_NoMatchNoEffects ==
    \A r \in RunIds :
        (runs[r].matched /\ runs[r].matching_companies = {}) =>
            /\ runs[r].pc = "done"
            /\ runs[r].outcome = "no_match"
            /\ RowsBy(r) = {} /\ runs[r].pending = {}
            /\ AlertsBy(r) = {}
            /\ r \notin confirmation_emails

\* C7 witness: a run of an active lead with pickup coordinates ended with
\* no match.
C7_Witness ==
    \E r \in RunIds :
        /\ runs[r].outcome = "no_match"
        /\ runs[r].lead[1].status = "active"
        /\ runs[r].lead[1].pickup # None

\* C8: send_customer_confirmation is invoked at most once for a lead over
\* any sequence of runs.
C8_ConfirmationAtMostOnce ==
    \A l \in LeadIds : Cardinality(ConfirmationsOf(l)) <= 1

\* The eligibility of a company for a lead with pickup coordinates, as the
\* matching criteria state it.
Eligible(lead, company) ==
    LET volume == IF lead.total_cbm = None THEN 0 ELSE lead.total_cbm[1]
        radius == IF company.service_radius_miles = None THEN 30
                  ELSE company.service_radius_miles[1]
        ptype == str_strip(IF lead.property_type = None THEN <<>>
                           ELSE lead.property_type[1])
    IN  /\ company.is_active
        /\ company.base_lat # None
        /\ company.base_lng # None
        /\ calculate_distance_miles(company.base_lat[1], company.base_lng[1],
               lead.pickup[1].lat[1], lead.pickup[1].lng[1]) <= radius * 100
        /\ company.pref_min_cbm # None => volume >= company.pref_min_cbm[1]
        /\ company.pref_max_cbm # None => volume <= company.pref_max_cbm[1]
        /\ PropertyTypeOk(company, ptype)

\* C9: for a lead with pickup coordinates find_matching_companies returns
\* exactly the eligible companies, each once.
C9_MatchesExactlyEligible ==
    (q_result # None /\ HasPickupCoordinates(q_lead)) =>
        /\ Range(q_result[1]) =
               {c \in CompanyIds : Eligible(q_lead, q_companies[c])}
        /\ Len(q_result[1]) = Cardinality(Range(q_result[1]))

\* C9 witness: both companies are returned, one of them with a maximum
\* volume equal to the lead's volume and a radius just covering the pickup.
C9_Witness ==
    /\ q_result # None
    /\ Len(q_result[1]) = 2
    /\ q_companies["A"].pref_max_cbm = q_lead.total_cbm
    /\ q_companies["A"].pref_min_cbm = q_lead.total_cbm
    /\ q_companies["A"].base_lat = Some(Barnet[1])
    /\ q_companies["A"].service_radius_miles = Some(14)

\* C10: every notification row (added or committed) and every alert email
\* of a run is for a company that was active and had both base coordinates
\* when the run queried the companies.
C10_OnlyActiveBasedCompanies ==
    \A r \in RunIds, c \in CompanyIds :
        (\/ c \in CompaniesOf(RowsBy(r))
         \/ c \in CompaniesOf(runs[r].pending)
         \/ <<r, c>> \in alert_emails) =>
            /\ runs[r].seen # None
            /\ runs[r].seen[1][c].is_active
            /\ runs[r].seen[1][c].base_lat # None
            /\ runs[r].seen[1][c].base_lng # None

\* C10 witness: a run committed a row and sent an alert for one company
\* while the other, inactive, had its base at the lead's pickup.
C10_Witness ==
    \E r \in RunIds :
        /\ runs[r].outcome = "committed"
        /\ AlertsBy(r) # {}
        /\ \E c \in CompanyIds \ CompaniesOf(RowsBy(r)) :
            /\ ~runs[r].seen[1][c].is_active
            /\ runs[r].seen[1][c].base_lat = runs[r].lead[1].pickup[1].lat
            /\ runs[r].seen[1][c].base_lng = runs[r].lead[1].pickup[1].lng

\* C11: a run for an active lead whose pickup is unset or lacks a
\* coordinate gets the empty list from find_matching_companies without any
\* company being looked at and without an exception, and creates no
\* notification row and sends no email.
C11_NoPickupNoMatches ==
    \A r \in RunIds :
        (/\ runs[r].pc \notin {"idle", "load", "match"}
         /\ runs[r].lead # None
         /\ runs[r].lead[1].status = "active"
         /\ ~HasPickupCoordinates(runs[r].lead[1])) =>
            /\ runs[r].pc = "done"
            /\ runs[r].matched
            /\ runs[r].matching_companies = {}
            /\ runs[r].outcome = "no_match"
            /\ RowsBy(r) = {} /\ runs[r].pending = {}
            /\ AlertsBy(r) = {}
            /\ r \notin confirmation_emails

\* C11 witness: a run returned with no match for a lead whose pickup has a
\* latitude only, while both companies were active with a base.
C11_Witness ==
    \E r \in RunIds :
        /\ runs[r].outcome = "no_match"
        /\ runs[r].lead[1].pickup # None
        /\ runs[r].lead[1].pickup[1].lat # None
        /\ runs[r].lead[1].pickup[1].lng = None
        /\ CandidateCompanies(runs[r].seen[1]) = CompanyIds

\* The filters of find_matching_companies other than the property type.
PassesOtherFilters(lead, company) ==
    /\ company.is_active
    /\ company.base_lat # None
    /\ company.base_lng # None
    /\ WithinRadius(company, lead.pickup[1].lat[1], lead.pickup[1].lng[1])
    /\ CbmPreferenceOk(company, OrDefault(lead.total_cbm, 0))

\* The property type filter as stated: no filter for an unset or empty
\* list, otherwise the lead's type equals an entry ignoring letter case.
StatedPropertyTypeOk(company, lead) ==
    LET pref == company.pref_property_types
    IN  \/ pref = None
        \/ pref[1] = <<>>
        \/ /\ lead.property_type # None
           /\ \E i \in 1..Len(pref[1]) :
                  str_lower(pref[1][i]) = str_lower(lead.property_type[1])

\* C12: among the companies that pass the other filters, the ones returned
\* are exactly those whose property type list is unset or empty or holds
\* an entry equal to the lead's property type ignoring letter case.
C12_PropertyTypeFilter ==
    (q_result # None /\ HasPickupCoordinates(q_lead)) =>
        \A c \in CompanyIds :
            PassesOtherFilters(q_lead, q_companies[c]) =>
                (c \in Range(q_result[1]) <=>
                    StatedPropertyTypeOk(q_companies[c], q_lead))

\* A point with |lat| > 90 or |lng| > 180 (tenths of a degree).
OutOfRange(lat, lng) ==
    \/ lat > 900 \/ lat < -900
    \/ lng > 1800 \/ lng < -1800

\* C13: the distance between a company base and a pickup is 0 whenever
\* either point is out of range, and such a company is returned whatever
\* its radius once it passes the volume and property type filters; a base
\* at latitude 90, longitude 180 is in range and gets its real distance.
C13_InvalidCoordinatesDistanceZero ==
    (q_result # None /\ HasPickupCoordinates(q_lead)) =>
        \A c \in CandidateCompanies(q_companies) :
            LET company == q_companies[c]
                base_lat == company.base_lat[1]
                base_lng == company.base_lng[1]
                pickup_lat == q_lead.pickup[1].lat[1]
                pickup_lng == q_lead.pickup[1].lng[1]
                distance == calculate_distance_miles(base_lat, base_lng,
                                pickup_lat, pickup_lng)
            IN  /\ (OutOfRange(base_lat, base_lng)
                        \/ OutOfRange(pickup_lat, pickup_lng)) =>
                       /\ distance = 0
                       /\ (/\ CbmPreferenceOk(company,
                                   OrDefault(q_lead.total_cbm, 0))
                           /\ PropertyTypeOk(company,
                                   str_strip(IF q_lead.property_type = None
                                             THEN <<>>
                                             ELSE q_lead.property_type[1])))
                              => c \in Range(q_result[1])
                /\ (<<base_lat, base_lng>> = PoleEdge
                        /\ <<pickup_lat, pickup_lng>> = London) =>
                       /\ distance > 0
                       /\ c \notin Range(q_result[1])

\* C13 witness: a company with longitude -181 and a radius of one mile is
\* returned for a lead picked up in London.
C13_Witness ==
    /\ q_result # None
    /\ q_lead.pickup = Pickup(Some(London[1]), Some(London[2]))
    /\ q_companies["A"].base_lng = Some(-1810)
    /\ q_companies["A"].service_radius_miles = Some(1)
    /\ "A" \in Range(q_result[1])

\* The active tiers whose range, as the code reads it, holds the volume.
CoveringTiers ==
    {t \in TierIds : /\ tiers[t] # None
                     /\ tiers[t][1].is_active
                     /\ TierCovers(tiers[t][1], p_total_cbm)}

\* The tier table of the example: (0,10,1000), (10,30,2000), (30,None,3500).
ExampleTiers ==
    [t \in TierIds |->
        IF t = "T1" THEN Some(LeadPricingTier(0, Some(1000), 1000, TRUE))
        ELSE IF t = "T2"
             THEN Some(LeadPricingTier(1000, Some(3000), 2000, TRUE))
             ELSE Some(LeadPricingTier(3000, None, 3500, TRUE))]

StatedTierCovers(tier, total_cbm) ==
    /\ tier.min_cbm <= total_cbm
    /\ tier.max_cbm # None => total_cbm <= tier.max_cbm[1]

StatedCoveringTiers ==
    {t \in TierIds : /\ tiers[t] # None
                     /\ tiers[t][1].is_active
                     /\ StatedTierCovers(tiers[t][1], p_total_cbm)}

\* C15: with an unset maximum read as unbounded and every set maximum,
\* 0 included, read as a limit, the price returned is that of an active
\* tier of least min_cbm whose range holds the volume, however large the
\* volume, or the default when there is no such tier.
C15_OnlyUnsetMaxUnbounded ==
    p_result # None =>
        /\ StatedCoveringTiers = {} => p_result[1] = DEFAULT_PRICE_PENCE
        /\ StatedCoveringTiers # {} =>
               \E t \in StatedCoveringTiers :
                   /\ p_result[1] = tiers[t][1].price_pence
                   /\ \A u \in StatedCoveringTiers :
                          tiers[t][1].min_cbm <= tiers[u][1].min_cbm

\* The access record with one key set to another value, all else equal.
WithParkingDistance(access_data, d) ==
    Some([access_data[1] EXCEPT !.parking_distance_m = Some(d)])

WithLift(access_data, has_lift) ==
    Some([access_data[1] EXCEPT !.has_lift = Some(has_lift)])

\* ceil(d / 50) for d > 0
CeilDiv50(d) == (d + 49) \div 50

\* C19: the part of the access cost due to a parking distance d > 0 is
\* ceil(d / 50) x 10, and 0 for d = 0.
C19_ParkingDistanceRoundsUp ==
    (/\ a_cost # None
     /\ a_access_data # None
     /\ a_access_data[1].parking_distance_m # None) =>
        LET d == a_access_data[1].parking_distance_m[1]
            fee == a_cost[1]
                     - _access_cost(WithParkingDistance(a_access_data, 0))
        IN  fee = IF d > 0 THEN CeilDiv50(d) * 10 ELSE 0

\* C20: the cost of a missing or empty access record is 0; with a floor
\* count above 0 the cost without a lift is the cost with a lift plus the
\* surcharge, and with a floor count of 0 the lift flag changes nothing.
C20_NoLiftSurchargeOnlyAboveGround ==
    a_cost # None =>
        /\ (a_access_data = None \/ a_access_data = Some(EmptyDict)) =>
               a_cost[1] = 0
        /\ (a_access_data # None /\ a_access_data[1].floors # None) =>
               LET floors == a_access_data[1].floors[1]
                   no_lift == _access_cost(WithLift(a_access_data, FALSE))
                   with_lift == _access_cost(WithLift(a_access_data, TRUE))
               IN  /\ floors > 0 => no_lift = with_lift + NO_LIFT_SURCHARGE
                   /\ floors > 0 => no_lift > with_lift
                   /\ floors = 0 => no_lift = with_lift
                   /\ a_cost[1] = IF Truthy(a_access_data[1].has_lift)
                                  THEN with_lift ELSE no_lift

\* C20 witness: three floors and no has_lift key cost the surcharge more
\* than the same record with a lift.
C20_Witness ==
    /\ a_cost # None
    /\ a_access_data # None
    /\ a_access_data[1].floors = Some(3)
    /\ a_access_data[1].has_lift = None
    /\ a_cost[1] = _access_cost(WithLift(a_access_data, TRUE)) + 50
    /\ a_cost[1] >= 3 * PRICE_PER_FLOOR + NO_LIFT_SURCHARGE

\* C16: every estimate has estimate_low <= estimate_high and
\* estimate_low >= 150.
C16_EstimateLowAtMostHigh ==
    e_result # None =>
        /\ e_result[1].estimate_low <= e_result[1].estimate_high
        /\ e_result[1].estimate_low >= 150

\* estimate_high of the lead with its total_cbm replaced, all else equal.
HighWithCbm(lead, total_cbm) ==
    calculate_lead_estimate(
        [lead EXCEPT !.total_cbm = Some(total_cbm)]).estimate_high

\* The volumes that are set, in hundredths of a cubic metre.
SetVolumes == {v[1] : v \in EstimateVolumes \ {None}}

\* C17 as stated: a lead with a larger total_cbm, all else equal, has a
\* strictly larger estimate_high.
C17_HighStrictlyIncreasing ==
    (e_result # None /\ e_lead.total_cbm # None) =>
        \A v \in SetVolumes :
            v > e_lead.total_cbm[1] =>
                HighWithCbm(e_lead, v) > e_result[1].estimate_high

\* C17 amended: estimate_high never decreases when total_cbm grows, all
\* else equal, and is strictly larger when total_cbm is larger by 0.05
\* cubic metres or more.
C17_HighNonDecreasing ==
    (e_result # None /\ e_lead.total_cbm # None) =>
        \A v \in SetVolumes :
            /\ v >= e_lead.total_cbm[1] =>
                   HighWithCbm(e_lead, v) >= e_result[1].estimate_high
            /\ v >= e_lead.total_cbm[1] + 5 =>
                   HighWithCbm(e_lead, v) > e_result[1].estimate_high

\* C17 witness: a lead of volume 0 with nothing else priced gets 312, the
\* same lead with 0.01 cubic metres gets 312 too, and with 0.05 more.
C17_Witness ==
    /\ e_result # None
    /\ e_lead.total_cbm = Some(0)
    /\ e_result[1].estimate_high = 312
    /\ HighWithCbm(e_lead, 1) = 312
    /\ HighWithCbm(e_lead, 5) > 312

\* Both endpoints carry a lat and a lng value; 0 is a value.
BothEndpointsPresent(lead) ==
    /\ lead.pickup # None
    /\ lead.dropoff # None
    /\ lead.pickup[1].lat # None /\ lead.pickup[1].lng # None
    /\ lead.dropoff[1].lat # None /\ lead.dropoff[1].lng # None

\* C18: when both endpoints carry coordinates the distance fee in the
\* breakdown is max(0, miles - 10) x 1.50, so it is positive when the
\* endpoints are more than 10 miles apart.
C18_DistanceFeeWhenCoordinatesPresent ==
    (e_result # None /\ BothEndpointsPresent(e_lead)) =>
        LET miles == calculate_distance_miles(
                         e_lead.pickup[1].lat[1], e_lead.pickup[1].lng[1],
                         e_lead.dropoff[1].lat[1], e_lead.dropoff[1].lng[1])
            fee == Round2(Max(0, miles - 1000) * 3)
        IN  /\ e_result[1].breakdown.distance_cost = fee
            /\ miles > 1000 => e_result[1].breakdown.distance_cost > 0

\* The columns the contact step finalizes: price, inventory totals,
\* estimate, location and the submission and expiry timestamps.
Finalized(lead) ==
    <<lead.lead_price_pence, lead.total_cbm, lead.total_weight_kg,
      lead.total_items, lead.bulky_items, lead.fragile_items,
      lead.estimate_low, lead.estimate_high, lead.pickup, lead.dropoff,
      lead.distance_miles, lead.submitted_at, lead.expires_at>>

\* C21: once the lead of a survey token is active, no step of the survey
\* (map, property, access, upload, review or contact POST) changes its
\* price, totals, estimate, location or submission and expiry timestamps;
\* its status stays active or becomes expired.
C21_ActiveLeadReadOnly ==
    [][(s_lead # None /\ s_lead[1].status = "active") =>
            /\ s_lead' # None
            /\ Finalized(s_lead'[1]) = Finalized(s_lead[1])
            /\ s_lead'[1].status \in {"active", "expired"}]_vars

\* C22: over any sequence of requests for a survey token distribute_lead
\* is scheduled at most once, and only when the lead has been committed as
\* active with its price.
C22_DistributionScheduledOnce ==
    /\ s_tasks <= 1
    /\ s_tasks >= 1 =>
            /\ s_lead # None
            /\ s_lead[1].status = "active"
            /\ s_lead[1].lead_price_pence # None

\* The rows a run of distribute_lead leaves in the table depend on its own
\* lead and on the companies its query saw, and on nothing else.
RunRowsAreItsOwn(r) ==
    /\ \A n \in RowsBy(r) \cup runs[r].pending :
            n.lead_id = runs[r].lead_id
    /\ runs[r].outcome = "committed" =>
            /\ CompaniesOf(RowsBy(r)) = runs[r].matching_companies
            /\ \E rows \in Orderings(CandidateCompanies(runs[r].seen[1])) :
                    runs[r].matching_companies =
                        Range(find_matching_companies(
                                  runs[r].lead[1], runs[r].seen[1], rows))

\* C25: a step of a run of distribute_lead for lead L changes no Lead and
\* no Company row, removes or alters no notification row, and adds only
\* rows whose lead_id is L; the rows a run commits are those of its own
\* matched companies whatever other runs do in between, so interleaved runs
\* for different leads leave the rows they leave when run one after the
\* other.
C25_DistributionsIndependent ==
    /\ [](\A r \in RunIds : RunRowsAreItsOwn(r))
    /\ [][/\ leads' = leads
          /\ notifications \subseteq notifications'
          /\ \A r \in RunIds :
                runs'[r] # runs[r] =>
                    /\ companies' = companies
                    /\ \A p \in RunIds \ {r} : runs'[p] = runs[p]
                    /\ \A n \in notifications' \ notifications :
                            n.run = r /\ n.lead_id = runs[r].lead_id]_vars

\* C25 witness: two runs for different leads overlapped in time and both
\* committed a row, each for its own lead.
C25_Witness ==
    /\ overlapped
    /\ runs[1].lead_id # runs[2].lead_id
    /\ \A r \in RunIds : runs[r].outcome = "committed" /\ RowsBy(r) # {}

\* C26: a run of distribute_lead in which a store operation failed (the
\* lead query, the company query or the commit) has rolled back and
\* returned: it leaves no row and no pending row, it is not started again,
\* and the failing step changes no Lead row (status included) and no
\* committed notification row.
C26_FailedDistributionContained ==
    /\ [](\A r \in RunIds :
            runs[r].db_error =>
                /\ runs[r].pc = "done"
                /\ runs[r].outcome = "rolled_back"
                /\ runs[r].pending = {}
                /\ RowsBy(r) = {})
    /\ [][\A r \in RunIds :
            /\ (runs'[r].db_error /\ ~runs[r].db_error) =>
                    /\ leads' = leads
                    /\ notifications' = notifications
                    /\ companies' = companies
            /\ runs[r].pc = "done" => runs'[r] = runs[r]]_vars

\* C26 witness: the commit of a run that had added a row for an active
\* lead failed; the lead is still active and the table has no row.
C26_Witness ==
    \E r \in RunIds :
        /\ runs[r].db_error
        /\ runs[r].matching_companies # {}
        /\ runs[r].todo = {}
        /\ leads[runs[r].lead_id][1].status = "active"
        /\ notifications = {}

\* The paid purchases of a (lead, company) pair.
PaidPurchasesOf(l, c) ==
    {p \in PurchasesOf(purchases, l, c) : p.payment_status = "paid"}

\* C23: in every state the lead_purchases table holds at most one row, and
\* so at most one paid row, for each (lead, company) pair, whatever the
\* interleaving of purchase requests, success callbacks and webhooks.
C23_OnePaidPurchasePerPair ==
    \A l \in LeadIds, c \in CompanyIds :
        /\ Cardinality(PurchasesOf(purchases, l, c)) <= 1
        /\ Cardinality(PaidPurchasesOf(l, c)) <= 1

\* C23 witness: a pair has a paid purchase, and Stripe holds a second
\* Checkout Session of the same pair whose purchase row the store rejected
\* (no row carries it and no request in flight is about to insert it).
C23_Witness ==
    \E s \in SessionIds :
        /\ checkout_sessions[s] # None
        /\ PurchasesOfSession(purchases, s) = {}
        /\ \A h \in HandlerIds : handlers[h].session # Some(s)
        /\ PaidPurchasesOf(checkout_sessions[s][1].lead_id,
                           checkout_sessions[s][1].company_id) # {}

\* C24: a purchase that is paid stays exactly as it is: no later completion
\* signal for its checkout session (webhook, redelivered webhook or
\* success callback) writes its paid_at, payment-intent id or status again.
C24_PaidExactlyOnce ==
    [][\A p \in purchases :
            p.payment_status = "paid" => p \in purchases']_vars

\* C27: once the checkout.session.completed webhook of a session created by
\* the purchase route has been handled, the purchase of that session is
\* paid and the notification of its pair, if there is one, has purchased_at
\* set; and a notification with purchased_at set has a paid purchase for
\* its pair.
C27_PurchaseMarksNotification ==
    /\ \A s \in stripe_events :
            checkout_sessions[s][1].type = None =>
                \A p \in PurchasesOfSession(purchases, s) :
                    /\ p.payment_status = "paid"
                    /\ \A n \in lead_notifications :
                            (n.lead_id = p.lead_id
                                /\ n.company_id = p.company_id) =>
                                n.purchased_at # None
    /\ \A n \in lead_notifications :
            n.purchased_at # None =>
                PaidPurchasesOf(n.lead_id, n.company_id) # {}

\* C28: outside development mode every paid purchase belongs to a Checkout
\* Session whose payment Stripe has confirmed.
C28_PaidOnlyAfterPayment ==
    app_env # "development" =>
        \A p \in purchases :
            p.payment_status = "paid" =>
                /\ p.stripe_checkout_session_id # None
                /\ checkout_sessions[p.stripe_checkout_session_id[1]][1]
                        .payment_status = "paid"

\* C29: every purchase row and every Checkout Session is of a lead whose
\* status is active (the status of a lead does not change while it is on
\* offer here).
C29_PurchaseOnlyOfActiveLead ==
    /\ \A p \in purchases : leads[p.lead_id][1].status = "active"
    /\ \A s \in SessionIds :
            checkout_sessions[s] # None =>
                leads[checkout_sessions[s][1].lead_id][1].status = "active"

\* C30: a checkout.session.completed event of type lead_purchase that is
\* recorded as processed has a paid purchase for its session.
C30_ProcessedEventHasPaidPurchase ==
    \A s \in stripe_events :
        IsLeadPurchaseEvent(checkout_sessions[s][1]) =>
            \E p \in PurchasesOfSession(purchases, s) :
                p.payment_status = "paid"

====
